---- MODULE Spec2Model ----
(***************************************************************************)
(* BytePredictionEngine (backend/dash_with_transformer/engine.py): the     *)
(* LRU prefix cache with its empty-prefix sentinel, _predict_one advancing *)
(* a cached beam state byte by byte, _predict_trie expanding a depth- and  *)
(* branch-bounded trie, and predict_batch gathering one trie per input.    *)
(*                                                                         *)
(* The cache is the OrderedDict as a sequence of entries, least recently   *)
(* used first.  A beam state (ByteBeamState) is the bytes it has consumed, *)
(* its trie mode and the coroutine that created it.  Coroutines are the    *)
(* entries of tasks, keyed by <<input index>> \o <<bytes appended>>; every *)
(* await on the model or on the lock is a step boundary.                   *)
(***************************************************************************)
EXTENDS Integers, Sequences, FiniteSets, TLC

\* ---------------------------------------------------------------- bounds
NumBytes == 3
MaxCap == 2
MaxBatches == 2

\* ------------------------------------------------------- program constants
MaxDepth == 5
MaxBranch == 3

\* Probabilities are counted in units of 1/Unit.
Unit == 4

Bytes == 0 .. (NumBytes - 1)
WITHOUT_EOS == "WITHOUT_EOS"
WITH_EOS == "WITH_EOS"
Modes == {WITHOUT_EOS, WITH_EOS}
NoTask == <<>>
StartTask == <<0>>
EmptyKey == <<>>

VARIABLES cache, maxSize, started, lock, lm, tasks, inputs, results,
          phase, nBatches, doneOrder, last

vars == <<cache, maxSize, started, lock, lm, tasks, inputs, results,
          phase, nBatches, doneOrder, last>>

\* ----------------------------------------------------------- OrderedDict
Keys(c) == {c[i].key : i \in DOMAIN c}

HasKey(c, k) == k \in Keys(c)

IndexOf(c, k) == CHOOSE i \in DOMAIN c : c[i].key = k

GetItem(c, k) == c[IndexOf(c, k)].val

Remove(c, k) ==
    LET i == IndexOf(c, k)
    IN  SubSeq(c, 1, i - 1) \o SubSeq(c, i + 1, Len(c))

MoveToEnd(c, k) == Append(Remove(c, k), c[IndexOf(c, k)])

MoveToFront(c, k) == <<c[IndexOf(c, k)]>> \o Remove(c, k)

SetItem(c, k, v) ==
    IF HasKey(c, k)
    THEN [c EXCEPT ![IndexOf(c, k)].val = v]
    ELSE Append(c, [key |-> k, val |-> v])

Take(s, n) == SubSeq(s, 1, n)

IsPrefix(p, s) == Len(p) <= Len(s) /\ Take(s, Len(p)) = p

\* ------------------------------------------------------------ beam states
WithMode(h, m) == [h EXCEPT !.mode = m]

Advance(h, b, who) == [bytes |-> Append(h.bytes, b), mode |-> h.mode, by |-> who]

\* Faulty variant: the initial state stored in whatever mode it came in.
StartStateAsIs(initial) == initial

StartState(initial) == WithMode(initial, WITHOUT_EOS)

GenState(state) == WithMode(state, WITH_EOS)

\* The language model is external: for each trie mode, one profile (the byte
\* probabilities, in units of 1/Unit) per context length, the last profile
\* serving every longer context.
ProfileOf(schedule, bytes) ==
    schedule[IF Len(bytes) < Len(schedule) THEN Len(bytes) + 1 ELSE Len(schedule)]

DistOf(profile) ==
    [b \in Bytes |-> IF b + 1 <= Len(profile) THEN profile[b + 1] ELSE 0]

\* logp_next, then exp, cut to the byte entries.
LogpNext(model, h) == DistOf(ProfileOf(model[h.mode], h.bytes))

\* ------------------------------------------------------------------ cache
RECURSIVE ScanPrefix(_, _, _)
ScanPrefix(c, ctx, i) ==
    IF i < 0
    THEN [found |-> FALSE, prefix |-> EmptyKey, cache |-> c]
    ELSE IF HasKey(c, Take(ctx, i))
         THEN [found |-> TRUE, prefix |-> Take(ctx, i),
               cache |-> MoveToEnd(c, Take(ctx, i))]
         ELSE ScanPrefix(c, ctx, i - 1)

\* Faulty variant: the scan stops at the shortest cached prefix.
ShortestCachedPrefix(c, ctx) ==
    IF HasKey(c, EmptyKey)
    THEN [found |-> TRUE, prefix |-> EmptyKey, cache |-> MoveToEnd(c, EmptyKey)]
    ELSE ScanPrefix(c, ctx, Len(ctx))

\* Faulty variant: the hit is returned without move_to_end.
LongestCachedPrefixUntouched(c, ctx) ==
    [ScanPrefix(c, ctx, Len(ctx)) EXCEPT !.cache = c]

LongestCachedPrefix(c, ctx) == ScanPrefix(c, ctx, Len(ctx))

\* Faulty variant: plain LRU eviction, the sentinel not spared.
RECURSIVE EvictPlain(_, _)
EvictPlain(c, max) ==
    IF Len(c) > max /\ c # <<>> THEN EvictPlain(Tail(c), max) ELSE c

\* Faulty variant: the popped sentinel is re-inserted but not moved back to
\* the front.
RECURSIVE EvictSentinelToEnd(_, _)
EvictSentinelToEnd(c, max) ==
    IF Len(c) > max
    THEN IF Head(c).key = EmptyKey
         THEN SetItem(Tail(c), Head(c).key, Head(c).val)
         ELSE EvictSentinelToEnd(Tail(c), max)
    ELSE c

\* Variant: eviction goes on past the sentinel to the next least recently
\* used entries.
RECURSIVE EvictPastSentinel(_, _)
EvictPastSentinel(c, max) ==
    IF Len(c) > max /\ Len(c) > 1
    THEN IF Head(c).key = EmptyKey
         THEN <<Head(c)>> \o Tail(EvictPastSentinel(<<Head(c)>> \o Tail(Tail(c)), max))
         ELSE EvictPastSentinel(Tail(c), max)
    ELSE c

RECURSIVE Evict(_, _)
Evict(c, max) ==
    IF Len(c) > max
    THEN IF Head(c).key = EmptyKey
         THEN MoveToFront(SetItem(Tail(c), Head(c).key, Head(c).val), EmptyKey)
         ELSE Evict(Tail(c), max)
    ELSE c

\* Faulty variant: a put on a cached key replaces the stored state.
PutCacheOverwrite(c, key, state, max) ==
    IF HasKey(c, key)
    THEN MoveToEnd(SetItem(c, key, state), key)
    ELSE Evict(SetItem(c, key, state), max)

PutCache(c, key, state, max) ==
    IF HasKey(c, key)
    THEN MoveToEnd(c, key)
    ELSE Evict(SetItem(c, key, state), max)

\* ------------------------------------------------------------- coroutines
NoState == [bytes |-> <<>>, mode |-> "none", by |-> NoTask]

NoDist == <<>>

Leaf(dist) == [dist |-> dist, children |-> <<>>]

NoTrie == [dist |-> NoDist, children |-> <<>>]

\* A coroutine: where it stands (pc), the arguments of _predict_trie, the
\* locals of _predict_one (prefix, i, state, gen) and of _predict_trie
\* (eligible, trie), the keys it has put so far (puts) and, kept in the
\* coroutine of each input, the _predict_one calls made per depth (calls).

One == [n |-> 1, d |-> 1]

NewTask(ctx, prob, minProb, depth) ==
    [pc |-> "acq_lookup", ctx |-> ctx, prob |-> prob, minProb |-> minProb,
     depth |-> depth, prefix |-> EmptyKey, i |-> 0, state |-> NoState,
     gen |-> NoState, eligible |-> <<>>, trie |-> NoTrie, puts |-> <<>>,
     calls |-> [d \in 0 .. MaxDepth + 1 |-> IF d = depth THEN 1 ELSE 0]]

ByteSeq == [k \in 1 .. NumBytes |-> k - 1]

IsEligible(dist, prob, minProb, b) ==
    dist[b] # 0 /\ prob.n * dist[b] >= minProb * prob.d

Eligible(dist, prob, minProb) ==
    SelectSeq(ByteSeq, LAMBDA b : IsEligible(dist, prob, minProb, b))

\* Faulty variant: the depth test off by one.
StopsHereLate(depth, eligible) ==
    depth > MaxDepth \/ Len(eligible) >= MaxBranch

StopsHere(depth, eligible) == depth >= MaxDepth \/ Len(eligible) >= MaxBranch

\* Faulty variant: the path probability handed down unscaled.
ChildProbUnscaled(prob, dist, b) == prob

ChildProb(prob, dist, b) == [n |-> prob.n * dist[b], d |-> prob.d * Unit]

ChildIds(t, eligible) == {t \o <<eligible[k]>> : k \in DOMAIN eligible}

Range(s) == {s[k] : k \in DOMAIN s}

\* dict(zip(eligible, subtries)): gather hands the subtries back in the order
\* of the awaitables it was given.
ZipChildren(t, eligible, tbl) ==
    [b \in Range(eligible) |-> tbl[t \o <<b>>].trie]

\* Faulty variant: the tries listed in the order the expansions completed.
GatherResultsAsCompleted(n, tbl, order) ==
    [k \in 1 .. n |-> tbl[<<order[k]>>].trie]

GatherResults(n, tbl, order) == [k \in 1 .. n |-> tbl[<<k>>].trie]

IsRoot(t) == Len(t) = 1

\* The last cache operation: who ran it, on which key, for which context,
\* the beam state it was given or gave back, and the cache it found.
Note(op, t, key, ctx, val) ==
    [op |-> op, task |-> t, key |-> key, ctx |-> ctx, val |-> val,
     before |-> cache]

\* ------------------------------------------------------------------ inputs
Chain == <<3>>
Fork == <<2, 2>>
Wide == <<2, 1, 1>>
Dead == <<>>

Schedules ==
    { <<Chain, Chain, Chain, Chain, Chain, Fork, Dead>>,
      <<Fork, Chain, Dead>>,
      <<Wide, Fork, Dead>> }

LanguageModels ==
    { [m \in Modes |-> IF m = WITH_EOS THEN s ELSE <<Chain>>] : s \in Schedules }

Prefixes == { <<>>, <<0>>, <<0, 1>> }
MinProbs == { 0, 2, Unit }
InputSet == { [prefix |-> p, minProb |-> m] : p \in Prefixes, m \in MinProbs }
Narrow == { x \in InputSet : x.minProb = Unit }
Batches == { <<>> } \cup { <<x>> : x \in InputSet }
             \cup { <<x, y>> : x \in Narrow, y \in Narrow }
             \cup { << [prefix |-> <<>>, minProb |-> 2],
                       [prefix |-> <<0>>, minProb |-> Unit] >> }

\* ------------------------------------------------------------------- Init
Init ==
    /\ cache = <<>>
    /\ maxSize \in 0 .. MaxCap
    /\ started = FALSE
    /\ lock = NoTask
    /\ lm \in LanguageModels
    /\ tasks = <<>>
    /\ inputs = <<>>
    /\ results = <<>>
    /\ phase = "idle"
    /\ nBatches = 0
    /\ doneOrder = <<>>
    /\ last = [op |-> "none", task |-> NoTask, key |-> EmptyKey,
               ctx |-> EmptyKey, val |-> NoState, before |-> <<>>]

\* ---------------------------------------------------------------- actions
\* start(): the initial beam state, stored under b"" in WITHOUT_EOS.
Start ==
    /\ ~started
    /\ \E m \in Modes :
         LET initial == [bytes |-> <<>>, mode |-> m, by |-> StartTask]
         IN  /\ cache' = SetItem(cache, EmptyKey, StartState(initial))
             /\ last' = Note("start", StartTask, EmptyKey, EmptyKey,
                             StartState(initial))
    /\ started' = TRUE
    /\ UNCHANGED <<maxSize, lock, lm, tasks, inputs, results, phase, nBatches,
                   doneOrder>>

\* Faulty variant: an empty batch still refreshes the sentinel's recency.
PredictBatchEmptyTouching ==
    /\ started /\ phase \in {"idle", "returned"} /\ nBatches < MaxBatches
    /\ inputs' = <<>>
    /\ results' = <<>>
    /\ phase' = "returned"
    /\ nBatches' = nBatches + 1
    /\ doneOrder' = <<>>
    /\ cache' = MoveToEnd(cache, EmptyKey)
    /\ UNCHANGED <<maxSize, started, lock, lm, tasks, last>>

\* predict_batch([]) returns [] at once.
PredictBatchEmpty ==
    /\ started /\ phase \in {"idle", "returned"} /\ nBatches < MaxBatches
    /\ inputs' = <<>>
    /\ results' = <<>>
    /\ phase' = "returned"
    /\ nBatches' = nBatches + 1
    /\ doneOrder' = <<>>
    /\ UNCHANGED <<cache, maxSize, started, lock, lm, tasks, last>>

\* predict_batch(inputs): one _predict_trie(ctx, 1.0, min_prob) per input.
PredictBatch ==
    /\ started /\ phase \in {"idle", "returned"} /\ nBatches < MaxBatches
    /\ \E batch \in Batches \ {<<>>} :
         /\ inputs' = batch
         /\ tasks' = [t \in {<<k>> : k \in DOMAIN batch} |->
                        NewTask(batch[t[1]].prefix, One, batch[t[1]].minProb, 0)]
    /\ results' = <<>>
    /\ phase' = "running"
    /\ nBatches' = nBatches + 1
    /\ doneOrder' = <<>>
    /\ UNCHANGED <<cache, maxSize, started, lock, lm, last>>

\* Faulty variant: the lock is still held when the block is left.
ReleaseNever(t) == t

\* Leaving the async with block releases the lock.
Release(t) == NoTask

\* async with self._lock (either site): the coroutine takes the free lock.
Acquire(t) ==
    /\ tasks[t].pc \in {"acq_lookup", "acq_put"}
    /\ lock = NoTask
    /\ lock' = t
    /\ tasks' = [tasks EXCEPT ![t].pc =
                    IF tasks[t].pc = "acq_lookup" THEN "lookup" ELSE "put"]
    /\ UNCHANGED <<cache, maxSize, started, lm, inputs, results, phase,
                   nBatches, doneOrder, last>>

\* _longest_cached_prefix under the lock, then the lock is released.
Lookup(t) ==
    /\ tasks[t].pc = "lookup"
    /\ lock = t
    /\ LET r == LongestCachedPrefix(cache, tasks[t].ctx)
       IN  IF r.found
           THEN /\ cache' = r.cache
                /\ tasks' = [tasks EXCEPT
                      ![t].prefix = r.prefix,
                      ![t].state = GetItem(r.cache, r.prefix),
                      ![t].i = 0,
                      ![t].pc = IF Len(r.prefix) < Len(tasks[t].ctx)
                                THEN "advance" ELSE "query"]
                /\ last' = Note("lookup", t, r.prefix, tasks[t].ctx,
                                GetItem(r.cache, r.prefix))
           ELSE /\ cache' = cache
                /\ tasks' = [tasks EXCEPT ![t].pc = "error"]
                /\ last' = Note("lookup_failed", t, EmptyKey, tasks[t].ctx,
                                NoState)
    /\ lock' = Release(t)
    /\ UNCHANGED <<maxSize, started, lm, inputs, results, phase, nBatches,
                   doneOrder>>

\* state = await (state.prune() << byte_val)
AdvanceByte(t) ==
    /\ tasks[t].pc = "advance"
    /\ LET byte_val == tasks[t].ctx[Len(tasks[t].prefix) + tasks[t].i + 1]
       IN  tasks' = [tasks EXCEPT
                       ![t].state = Advance(tasks[t].state, byte_val, t),
                       ![t].pc = "acq_put"]
    /\ UNCHANGED <<cache, maxSize, started, lock, lm, inputs, results, phase,
                   nBatches, doneOrder, last>>

\* Faulty variant: the key one byte short of the state it names.
NewPrefixShort(ctx, prefix, i) == Take(ctx, Len(prefix) + i)

NewPrefix(ctx, prefix, i) == Take(ctx, Len(prefix) + i + 1)

\* self._put_cache(new_prefix, state) under the lock, then the next byte.
Put(t) ==
    /\ tasks[t].pc = "put"
    /\ lock = t
    /\ LET new_prefix == NewPrefix(tasks[t].ctx, tasks[t].prefix, tasks[t].i)
       IN  /\ cache' = PutCache(cache, new_prefix, tasks[t].state, maxSize)
           /\ last' = Note("put", t, new_prefix, tasks[t].ctx, tasks[t].state)
           /\ tasks' = [tasks EXCEPT
                 ![t].i = tasks[t].i + 1,
                 ![t].puts = Append(tasks[t].puts, new_prefix),
                 ![t].pc = IF Len(tasks[t].prefix) + tasks[t].i + 1
                                 < Len(tasks[t].ctx)
                           THEN "advance" ELSE "query"]
    /\ lock' = Release(t)
    /\ UNCHANGED <<maxSize, started, lm, inputs, results, phase, nBatches,
                   doneOrder>>

RootOf(t) == <<t[1]>>

\* The children of t are created: one more _predict_one call each.
Counted(tbl, t, eligible) ==
    [tbl EXCEPT ![RootOf(t)].calls[tbl[t].depth + 1] = @ + Len(eligible)]

Finished(tbl, t, order) == IF IsRoot(t) THEN Append(order, t[1]) ELSE order

\* gen_state.logp_next() completes; _predict_trie then runs to its return or
\* to the gather of its children.
Query(t) ==
    /\ tasks[t].pc = "query"
    /\ LET gen_state == GenState(tasks[t].state)
           dist == LogpNext(lm, gen_state)
           eligible == Eligible(dist, tasks[t].prob, tasks[t].minProb)
       IN  IF StopsHere(tasks[t].depth, eligible) \/ eligible = <<>>
           THEN /\ tasks' = [tasks EXCEPT ![t].gen = gen_state,
                                           ![t].eligible = eligible,
                                           ![t].trie = Leaf(dist),
                                           ![t].pc = "done"]
                /\ doneOrder' = Finished(tasks, t, doneOrder)
           ELSE /\ tasks' =
                     [u \in DOMAIN tasks \cup ChildIds(t, eligible) |->
                        IF u = t
                        THEN [Counted(tasks, t, eligible)[t] EXCEPT
                                              !.gen = gen_state,
                                              !.eligible = eligible,
                                              !.trie = Leaf(dist),
                                              !.pc = "gather"]
                        ELSE IF u \in DOMAIN tasks
                        THEN Counted(tasks, t, eligible)[u]
                        ELSE NewTask(Append(tasks[t].ctx, u[Len(u)]),
                                     ChildProb(tasks[t].prob, dist, u[Len(u)]),
                                     tasks[t].minProb, tasks[t].depth + 1)]
                /\ doneOrder' = doneOrder
    /\ UNCHANGED <<cache, maxSize, started, lock, lm, inputs, results, phase,
                   nBatches, last>>

\* The gather of the children completes: children = dict(zip(...)), return.
Gather(t) ==
    /\ tasks[t].pc = "gather"
    /\ \A u \in ChildIds(t, tasks[t].eligible) : tasks[u].pc = "done"
    /\ tasks' =
         [u \in DOMAIN tasks \ ChildIds(t, tasks[t].eligible) |->
            IF u = t
            THEN [tasks[t] EXCEPT
                    !.trie = [dist |-> tasks[t].trie.dist,
                              children |-> ZipChildren(t, tasks[t].eligible, tasks)],
                    !.pc = "done"]
            ELSE tasks[u]]
    /\ doneOrder' = Finished(tasks, t, doneOrder)
    /\ UNCHANGED <<cache, maxSize, started, lock, lm, inputs, results, phase,
                   nBatches, last>>

\* The gather of predict_batch completes: the list of the tries is returned.
BatchReturn ==
    /\ phase = "running"
    /\ \A k \in DOMAIN inputs : tasks[<<k>>].pc = "done"
    /\ results' = GatherResults(Len(inputs), tasks, doneOrder)
    /\ tasks' = <<>>
    /\ phase' = "returned"
    /\ UNCHANGED <<cache, maxSize, started, lock, lm, inputs, nBatches,
                   doneOrder, last>>

Next ==
    \/ Start
    \/ PredictBatchEmpty
    \/ PredictBatch
    \/ \E t \in DOMAIN tasks : Acquire(t)
    \/ \E t \in DOMAIN tasks : Lookup(t)
    \/ \E t \in DOMAIN tasks : AdvanceByte(t)
    \/ \E t \in DOMAIN tasks : Put(t)
    \/ \E t \in DOMAIN tasks : Query(t)
    \/ \E t \in DOMAIN tasks : Gather(t)
    \/ BatchReturn

Spec == Init /\ [][Next]_vars

\* The event loop runs every coroutine that is ready, and the model
\* completes every operation it was asked for.
Progress ==
    \/ \E t \in DOMAIN tasks : Acquire(t)
    \/ \E t \in DOMAIN tasks : Lookup(t)
    \/ \E t \in DOMAIN tasks : AdvanceByte(t)
    \/ \E t \in DOMAIN tasks : Put(t)
    \/ \E t \in DOMAIN tasks : Query(t)
    \/ \E t \in DOMAIN tasks : Gather(t)
    \/ BatchReturn

FairSpec == Spec /\ WF_vars(Progress)

\* A model operation (the advance or the query) raises; nothing catches it
\* in _predict_one or _predict_trie, so the coroutine ends with the error.
ModelFail(t) ==
    /\ tasks[t].pc \in {"advance", "query"}
    /\ tasks' = [tasks EXCEPT ![t].pc = "failed"]
    /\ UNCHANGED <<cache, maxSize, started, lock, lm, inputs, results, phase,
                   nBatches, doneOrder, last>>

\* The gather of the children raises the first error of a child; the other
\* children keep running.
GatherFail(t) ==
    /\ tasks[t].pc = "gather"
    /\ \E u \in ChildIds(t, tasks[t].eligible) : tasks[u].pc = "failed"
    /\ tasks' = [tasks EXCEPT ![t].pc = "failed"]
    /\ UNCHANGED <<cache, maxSize, started, lock, lm, inputs, results, phase,
                   nBatches, doneOrder, last>>

\* Variant: the gather of predict_batch collects what completed and returns.
BatchFailIsolated ==
    /\ phase = "running"
    /\ \E k \in DOMAIN inputs : tasks[<<k>>].pc = "failed"
    /\ results' = [k \in DOMAIN inputs |-> tasks[<<k>>].trie]
    /\ phase' = "returned"
    /\ UNCHANGED <<cache, maxSize, started, lock, lm, tasks, inputs, nBatches,
                   doneOrder, last>>

\* The gather of predict_batch raises the first error of an input: the call
\* ends with it and returns nothing; coroutines still running are left to
\* run.
BatchFail ==
    /\ phase = "running"
    /\ \E k \in DOMAIN inputs : tasks[<<k>>].pc = "failed"
    /\ phase' = "failed"
    /\ UNCHANGED <<cache, maxSize, started, lock, lm, tasks, inputs, results,
                   nBatches, doneOrder, last>>

NextFail ==
    \/ Next
    \/ \E t \in DOMAIN tasks : ModelFail(t)
    \/ \E t \in DOMAIN tasks : GatherFail(t)
    \/ BatchFail

\* The event loop resumes whoever awaits a gather that has an error; nothing
\* is assumed about the model operations still pending.
Propagate ==
    \/ \E t \in DOMAIN tasks : GatherFail(t)
    \/ BatchFail

SpecFail == Init /\ [][NextFail]_vars /\ WF_vars(Propagate)

\* ------------------------------------------------------------------ claims
KeySeq(c) == [i \in DOMAIN c |-> c[i].key]

PutDone == last.op = "put"

PutWasNew == PutDone /\ ~HasKey(last.before, last.key)

PutWasHit == PutDone /\ HasKey(last.before, last.key)

\* C1: after any put with a configured maximum >= 1 the cache holds at most
\* the configured maximum of entries.
BoundedAfterPut == (PutDone /\ maxSize >= 1) => Len(cache) <= maxSize

\* C2: once start has stored the empty key it is in the cache after every
\* lookup and every put, whatever the maximum, and no lookup ever fails to
\* find a starting point.
SentinelPermanent ==
    started =>
        /\ HasKey(cache, EmptyKey)
        /\ last.op # "lookup_failed"
        /\ \A t \in DOMAIN tasks : tasks[t].pc # "error"

\* C2 witness: a put of a new key into a full cache whose least recently
\* used entry was the sentinel.
SentinelWasVictim ==
    /\ PutWasNew
    /\ Len(last.before) >= maxSize
    /\ Head(last.before).key = EmptyKey
    /\ HasKey(cache, EmptyKey)

\* C3: a lookup returns a cached key that is a prefix of ctx, with the state
\* stored under it, and no longer prefix of ctx is cached; with only the
\* empty key cached it returns the empty key.
LongestPrefixReturned ==
    last.op = "lookup" =>
        /\ HasKey(last.before, last.key)
        /\ IsPrefix(last.key, last.ctx)
        /\ last.val = GetItem(last.before, last.key)
        /\ \A n \in 0 .. Len(last.ctx) :
              HasKey(last.before, Take(last.ctx, n)) => n <= Len(last.key)
        /\ (Keys(last.before) = {EmptyKey} => last.key = EmptyKey)

\* C3 witness: a lookup that returned a nonempty proper prefix of ctx while
\* the empty key was cached too.
ProperPrefixReturned ==
    /\ last.op = "lookup"
    /\ 0 < Len(last.key) /\ Len(last.key) < Len(last.ctx)
    /\ HasKey(last.before, EmptyKey)

\* C4: with maximum 2, the keys b"", b"a", b"ab" inserted in that order leave
\* exactly b"" and b"ab" in the cache after the third insert.
ScenarioEvictsMiddleKey ==
    ( /\ maxSize = 2
      /\ PutDone
      /\ last.key = <<0, 1>>
      /\ KeySeq(last.before) = <<EmptyKey, <<0>>>> )
    => Keys(cache) = {EmptyKey, <<0, 1>>}

\* C5: a put on a cached key leaves the key set and every stored state as
\* they were, evicts nothing and only makes that key the most recently used.
PutOnCachedKeyKeepsValue ==
    PutWasHit =>
        /\ Len(cache) = Len(last.before)
        /\ Keys(cache) = Keys(last.before)
        /\ \A k \in Keys(last.before) :
              GetItem(cache, k) = GetItem(last.before, k)
        /\ cache[Len(cache)].key = last.key
        /\ Remove(cache, last.key) = Remove(last.before, last.key)

\* C5 witness: a put on a cached key, handed a state other than the stored
\* one, while the key was not the most recently used.
PutOnCachedKeyWithOtherState ==
    /\ PutWasHit
    /\ last.val # GetItem(last.before, last.key)
    /\ last.before[Len(last.before)].key # last.key

ModelDist(ctx) == DistOf(ProfileOf(lm[WITH_EOS], ctx))

HasDist(t) == tasks[t].pc \in {"gather", "done"}

\* C6: the distribution a call returns for ctx is that of the state that
\* consumed exactly the bytes of ctx, whatever the cache held and whatever
\* the other coroutines did meanwhile.
DistributionOfContext ==
    \A t \in DOMAIN tasks :
        HasDist(t) =>
            /\ tasks[t].gen.bytes = tasks[t].ctx
            /\ tasks[t].trie.dist = ModelDist(tasks[t].ctx)

\* C6 witness: two finished calls for the same two-byte context, one that
\* advanced from the empty key and one that started from the one-byte
\* ancestor another coroutine had stored.
FromCacheAndFromScratch ==
    \E t, u \in DOMAIN tasks :
        /\ HasDist(t) /\ HasDist(u)
        /\ tasks[t].ctx = tasks[u].ctx
        /\ Len(tasks[t].ctx) = 2
        /\ tasks[t].prefix = EmptyKey
        /\ Len(tasks[u].prefix) = 1

Scaled(prob, dist, b) == [n |-> prob.n * dist[b], d |-> prob.d * Unit]

Worth(prob, dist, minProb, b) ==
    dist[b] # 0 /\ prob.n * dist[b] >= minProb * prob.d

\* The trie of one input, expanded one node after the other.
RECURSIVE ExpandSeq(_, _, _, _)
ExpandSeq(ctx, prob, minProb, depth) ==
    LET dist == ModelDist(ctx)
        el == {b \in Bytes : Worth(prob, dist, minProb, b)}
    IN  IF depth >= 5 \/ Cardinality(el) >= 3
        THEN [dist |-> dist, children |-> <<>>]
        ELSE [dist |-> dist,
              children |-> [b \in el |->
                  ExpandSeq(Append(ctx, b), Scaled(prob, dist, b), minProb,
                            depth + 1)]]

Returned == phase = "returned"

\* C7: the i-th result of a predict_batch call is the trie of the i-th input,
\* in whatever order the expansions completed, and there are as many results
\* as inputs.
ResultsInInputOrder ==
    Returned =>
        /\ Len(results) = Len(inputs)
        /\ \A i \in DOMAIN inputs :
              results[i] = ExpandSeq(inputs[i].prefix, One, inputs[i].minProb, 0)

\* C7 witness: a returned batch of two inputs with different tries whose
\* second expansion completed first.
SecondCompletedFirst ==
    /\ Returned
    /\ Len(inputs) = 2
    /\ doneOrder = <<2, 1>>
    /\ results[1] # results[2]

RECURSIVE ShapeOK(_, _, _, _)
ShapeOK(trie, prob, minProb, depth) ==
    LET kids == DOMAIN trie.children
        el == {b \in Bytes : Worth(prob, trie.dist, minProb, b)}
    IN  /\ depth <= 5
        /\ DOMAIN trie.dist = Bytes
        /\ (kids # {} => depth < 5 /\ Cardinality(el) < 3)
        /\ Cardinality(kids) < 3
        /\ \A b \in kids :
              ShapeOK(trie.children[b], Scaled(prob, trie.dist, b), minProb,
                      depth + 1)

\* C8: in a returned trie no node lies deeper than 5 below the root, a node
\* has children only at depth < 5 with fewer than 3 eligible bytes, no node
\* has 3 or more children, and every node reports its distribution.
TrieDepthAndBranchBound ==
    Returned =>
        \A i \in DOMAIN results : ShapeOK(results[i], One, inputs[i].minProb, 0)

RECURSIVE NodesAt(_, _)
NodesAt(trie, d) ==
    IF d = 0
    THEN {trie}
    ELSE UNION {NodesAt(trie.children[b], d - 1) : b \in DOMAIN trie.children}

NonZero(dist) == {b \in DOMAIN dist : dist[b] # 0}

\* C8 witness: with min_prob = 0, a returned node at depth 5 that reports a
\* distribution with 2 eligible bytes and has no children.
DepthFiveNodeNotExpanded ==
    /\ Returned
    /\ \E i \in DOMAIN results :
         /\ inputs[i].minProb = 0
         /\ \E node \in NodesAt(results[i], 5) :
              /\ Cardinality(NonZero(node.dist)) = 2
              /\ DOMAIN node.children = {}

RECURSIVE PrunedOK(_, _, _)
PrunedOK(trie, prob, minProb) ==
    \A b \in DOMAIN trie.children :
        /\ trie.dist[b] # 0
        /\ prob.n * trie.dist[b] >= minProb * prob.d
        /\ PrunedOK(trie.children[b], Scaled(prob, trie.dist, b), minProb)

\* C9: in every node of a returned trie a byte b is a child key only if
\* dist[b] # 0 and prob_so_far * dist[b] >= min_prob, prob_so_far being the
\* product of the distribution values on the path from the root.
ChildrenAreWorthMinProb ==
    Returned =>
        \A i \in DOMAIN results : PrunedOK(results[i], One, inputs[i].minProb)

\* C9 witness: a returned trie with min_prob = 1/2 whose nodes at depth 2
\* have a byte of probability 3/4 and no child for it, the path product
\* having fallen below min_prob.
PrunedByPathProduct ==
    /\ Returned
    /\ \E i \in DOMAIN results :
         /\ inputs[i].minProb = 2
         /\ NodesAt(results[i], 2) # {}
         /\ \A node \in NodesAt(results[i], 2) :
              /\ node.dist[0] = 3
              /\ DOMAIN node.children = {}

\* C10: every cached state is in WITHOUT_EOS, and so is every state handed
\* to a put; the WITH_EOS view is only what the final query reads.
CachedStatesWithoutEos ==
    /\ \A i \in DOMAIN cache : cache[i].val.mode = WITHOUT_EOS
    /\ PutDone => last.val.mode = WITHOUT_EOS
    /\ \A t \in DOMAIN tasks : HasDist(t) => tasks[t].gen.mode = WITH_EOS

\* C10 witness: a call has queried its WITH_EOS view while the cache holds
\* the sentinel and a state stored by that call.
QueriedWhileCached ==
    \E t \in DOMAIN tasks :
        /\ HasDist(t)
        /\ tasks[t].gen.mode = WITH_EOS
        /\ HasKey(cache, EmptyKey)
        /\ \E i \in DOMAIN cache : cache[i].val.by = t

Max(a, b) == IF a >= b THEN a ELSE b

Min(a, b) == IF a <= b THEN a ELSE b

EmptyBatchStep ==
    /\ inputs' = <<>>
    /\ phase' = "returned"
    /\ nBatches' = nBatches + 1

\* C13: predict_batch([]) returns [] and leaves the cache (keys, states,
\* recency order) as it was, with no lookup, put or coroutine started.
EmptyBatchTouchesNothing ==
    [][EmptyBatchStep =>
          /\ results' = <<>>
          /\ cache' = cache
          /\ last' = last
          /\ tasks' = tasks
          /\ lock' = lock]_vars

\* C13 witness: an empty batch has returned while the cache held more than
\* the sentinel, least recently used.
EmptyBatchOnWarmCache ==
    /\ Returned
    /\ inputs = <<>>
    /\ Len(cache) > 1
    /\ cache[1].key = EmptyKey

\* Entries of c less recently used than the sentinel.
StalerThanSentinel(c) == IndexOf(c, EmptyKey) - 1

PutEntry == [key |-> last.key, val |-> last.val]

\* The eviction loop of the last put popped the sentinel.
SentinelPopped ==
    /\ PutWasNew
    /\ Len(last.before) + 1 - StalerThanSentinel(last.before) > maxSize

\* C16: when the eviction loop pops the sentinel, it is put back with its
\* own state as the least recently used entry and the loop stops: every
\* entry used more recently than the sentinel stays, in the same order.
SentinelPutBackAtFront ==
    SentinelPopped =>
        LET j == IndexOf(last.before, EmptyKey)
        IN  /\ cache[1] = last.before[j]
            /\ cache = SubSeq(last.before, j, Len(last.before)) \o <<PutEntry>>

\* C16 witness: the loop evicted an older entry, then popped the sentinel and
\* stopped with the cache still over its maximum.
SentinelPoppedAfterEviction ==
    /\ SentinelPopped
    /\ StalerThanSentinel(last.before) >= 1
    /\ Len(cache) > maxSize
    /\ Len(cache) >= 3

\* C18: a lookup makes the returned key the most recently used entry and
\* changes nothing else: key set, stored states, size and the order of the
\* other entries are as before.
LookupOnlyRefreshes ==
    last.op = "lookup" =>
        /\ Len(cache) = Len(last.before)
        /\ Keys(cache) = Keys(last.before)
        /\ \A k \in Keys(last.before) :
              GetItem(cache, k) = GetItem(last.before, k)
        /\ cache[Len(cache)].key = last.key
        /\ Remove(cache, last.key) = Remove(last.before, last.key)

\* C18 witness: a lookup returned a key that was not the most recently used
\* of at least three entries.
LookupMovedKey ==
    /\ last.op = "lookup"
    /\ Len(last.before) >= 3
    /\ last.before[Len(last.before)].key # last.key
    /\ cache # last.before

\* C19: after a put of an absent key the size is max(n - j, min(n, M)), n the
\* size before plus one, M the maximum and j the number of entries less
\* recently used than the sentinel; with j = 0 the cache grows by one.
SizeAfterNewPut ==
    PutWasNew =>
        LET n == Len(last.before) + 1
            j == StalerThanSentinel(last.before)
        IN  /\ Len(cache) = Max(n - j, Min(n, maxSize))
            /\ (j = 0 => Len(cache) = n /\ Keys(last.before) \subseteq Keys(cache))

\* C19 witness: a put of a new key, the sentinel least recently used, that
\* left the cache two entries over its maximum.
GrewPastMaximum ==
    /\ PutWasNew
    /\ StalerThanSentinel(last.before) = 0
    /\ Len(cache) >= maxSize + 2

\* C20: right after a put the key is in the cache, for every maximum >= 0;
\* a newly inserted key is the most recently used entry, with the state
\* that was put.
PutKeyPresent ==
    PutDone =>
        /\ HasKey(cache, last.key)
        /\ (PutWasNew => cache[Len(cache)] = PutEntry)

\* C20 witness: a put of a new key with maximum 0.
NewKeyKeptAtMaximumZero ==
    /\ PutWasNew
    /\ maxSize = 0
    /\ HasKey(cache, last.key)

\* C15: a put that finds its key cached by a racing coroutine leaves the
\* first writer's state stored; the later writer's own state, for the same
\* bytes, is dropped and the key only becomes the most recently used.
FirstWriterWins ==
    PutWasHit =>
        /\ GetItem(cache, last.key) = GetItem(last.before, last.key)
        /\ GetItem(cache, last.key).by # last.task
        /\ last.val.by = last.task
        /\ last.val.bytes = GetItem(cache, last.key).bytes
        /\ cache[Len(cache)].key = last.key

\* C15 witness: two coroutines of one batch looked up the same prefix, both
\* advanced to the same uncached key, and the second put found the key
\* stored by the first.
RedundantRace ==
    /\ PutWasHit
    /\ \E u \in DOMAIN tasks :
         /\ u # last.task
         /\ last.task \in DOMAIN tasks
         /\ tasks[u].prefix = tasks[last.task].prefix
         /\ Len(tasks[u].prefix) < Len(last.key)
         /\ last.key \in Range(tasks[u].puts)
         /\ last.key \in Range(tasks[last.task].puts)
         /\ GetItem(cache, last.key).by = u

AfterLookup(t) == tasks[t].pc \notin {"acq_lookup", "lookup"}

LoopDone(t) == tasks[t].pc \in {"query", "gather", "done"}

\* C17: a call whose lookup returned a prefix of length p puts exactly the
\* prefixes of ctx of length p+1 .. len(ctx), in that order, each with the
\* state that has consumed exactly that prefix; every cached state has
\* consumed exactly the bytes of its key.
PutsFollowContext ==
    /\ \A i \in DOMAIN cache : cache[i].val.bytes = cache[i].key
    /\ PutDone => last.val.bytes = last.key /\ IsPrefix(last.key, last.ctx)
    /\ \A t \in DOMAIN tasks :
          AfterLookup(t) =>
             LET r == tasks[t]
                 p == Len(r.prefix)
             IN  /\ r.puts = [k \in 1 .. r.i |-> Take(r.ctx, p + k)]
                 /\ p + r.i <= Len(r.ctx)
                 /\ (LoopDone(t) => p + r.i = Len(r.ctx))
                 /\ r.state.bytes =
                       Take(r.ctx, p + r.i
                              + (IF r.pc \in {"acq_put", "put"} THEN 1 ELSE 0))

\* C17 witness: a finished call that started from the empty key and put the
\* one-byte and then the two-byte prefix of its context.
TwoPutsInOrder ==
    \E t \in DOMAIN tasks :
        /\ tasks[t].pc = "done"
        /\ tasks[t].prefix = EmptyKey
        /\ tasks[t].puts = << <<0>>, <<0, 1>> >>

Running == phase = "running"

RECURSIVE Pow2(_)
Pow2(d) == IF d = 0 THEN 1 ELSE 2 * Pow2(d - 1)

RECURSIVE SumTo(_, _)
SumTo(f, d) == IF d < 0 THEN 0 ELSE f[d] + SumTo(f, d - 1)

Roots == {t \in DOMAIN tasks : IsRoot(t)}

CallsBounded ==
    \A t \in Roots :
        /\ \A d \in 0 .. 5 : tasks[t].calls[d] <= Pow2(d)
        /\ tasks[t].calls[6] = 0
        /\ SumTo(tasks[t].calls, 6) <= 63

\* C11: with every model operation completing, a running predict_batch
\* eventually returns, and the expansion of one input makes at most 2^d
\* get_distribution calls at depth d <= 5, none deeper, at most 63 in all.
BatchReturnsWithinCallBudget ==
    /\ [] CallsBounded
    /\ Running ~> Returned

\* C11 witness: the expansion of one input is complete, after 8 calls that
\* went down to two nodes at depth 5.
ExpansionReachedDepthFive ==
    \E t \in Roots :
        /\ tasks[t].pc = "done"
        /\ tasks[t].calls[5] = 2
        /\ SumTo(tasks[t].calls, 6) >= 7

InSection(t) == tasks[t].pc \in {"lookup", "put"}

Waiting(t) == t \in DOMAIN tasks /\ tasks[t].pc \in {"acq_lookup", "acq_put"}

LockOnlyInSection ==
    /\ lock # NoTask => lock \in DOMAIN tasks /\ InSection(lock)
    /\ \A t \in DOMAIN tasks : InSection(t) => lock = t

NoneWaiting == \A t \in DOMAIN tasks : ~Waiting(t)

\* A coroutine stops waiting for the lock only by taking it.
WaitEndsWithLock ==
    \A t \in DOMAIN tasks : (Waiting(t) /\ ~Waiting(t)') => lock' = t

\* C14: the lock is held only by a coroutine inside the lookup or the put,
\* never by one suspended on the model, so at most one coroutine is in a
\* locked section; and no coroutine waits for the lock for ever: a wait
\* ends only with the lock taken, and again and again nobody is waiting.
LockDiscipline ==
    /\ [] LockOnlyInSection
    /\ [][WaitEndsWithLock]_vars
    /\ []<> NoneWaiting

\* C14 witness: one coroutine holds the lock in its put while another is
\* suspended on the model and a third waits for the lock.
LockHeldWhileOthersWait ==
    \E t, u, w \in DOMAIN tasks :
        /\ lock = t /\ tasks[t].pc = "put"
        /\ tasks[u].pc \in {"advance", "query"}
        /\ Waiting(w)

\* ------------------------------------------------- C12: model failures
Failed(t) == tasks[t].pc = "failed"

SomeFailed == \E t \in DOMAIN tasks : Failed(t)

BatchFailed == phase = "failed"

\* Nobody above a failed coroutine completes: each coroutine that awaits it,
\* directly or through its descendants, is still at its gather or has
\* failed too.
NotCaught ==
    \A t, a \in DOMAIN tasks :
        (Failed(t) /\ IsPrefix(a, t) /\ a # t) =>
            tasks[a].pc \in {"gather", "failed"}

\* A call in which a model operation failed has returned nothing.
NoResultsAfterFailure ==
    /\ SomeFailed => (phase \in {"running", "failed"} /\ results = <<>>)
    /\ BatchFailed => (results = <<>> /\ \E t \in Roots : Failed(t))

\* What the cache keeps whatever fails: the sentinel, one entry per key,
\* under each key a state that consumed exactly the key, without EOS.
CacheSound ==
    started =>
        /\ HasKey(cache, EmptyKey)
        /\ \A i, j \in DOMAIN cache : cache[i].key = cache[j].key => i = j
        /\ \A i \in DOMAIN cache :
             /\ cache[i].val.bytes = cache[i].key
             /\ cache[i].val.mode = WITHOUT_EOS

\* A step in which a coroutine or the call ends with the error.
FailureStep ==
    \/ \E t \in DOMAIN tasks \cap DOMAIN tasks' :
           ~Failed(t) /\ tasks'[t].pc = "failed"
    \/ ~BatchFailed /\ phase' = "failed"

\* A failed coroutine is never resumed (only the count of calls kept at its
\* root goes on, for the branches still running), and a failed call stays
\* failed.
NotRetried ==
    /\ \A t \in DOMAIN tasks :
           Failed(t) =>
               /\ t \in DOMAIN tasks'
               /\ [tasks'[t] EXCEPT !.calls = tasks[t].calls] = tasks[t]
    /\ BatchFailed => (phase' = "failed" /\ results' = <<>>)

\* C12: a failure of an advance or a query in the expansion of any input or
\* branch is neither caught nor retried: every coroutine awaiting the failed
\* one fails, the predict_batch call ends with the error and returns no
\* results, the failure leaves every cache entry where it was, and the cache
\* keeps its sentinel and its well-formed entries.
FailurePropagates ==
    /\ [] (NotCaught /\ NoResultsAfterFailure /\ CacheSound)
    /\ [][NotRetried /\ (FailureStep => (cache' = cache /\ lock' = lock))]_vars
    /\ SomeFailed ~> BatchFailed

\* C12 witness: the call has failed through a branch below the root that
\* failed after the call had put one of its states into the cache, and that
\* entry is still there.
FailedBatchKeepsEntries ==
    /\ BatchFailed
    /\ \E t \in DOMAIN tasks :
         /\ ~IsRoot(t) /\ Failed(t)
         /\ Failed(RootOf(t))
         /\ tasks[t].puts # <<>>
         /\ \A k \in 1 .. Len(tasks[t].puts) : HasKey(cache, tasks[t].puts[k])

====
